---- MODULE Spec2Model ----
(***************************************************************************)
(* A model of opatch_diff.py: the two inventory decoders (read_lspatches,  *)
(* read_lsinventory), the release-update scans, the comparator, the        *)
(* prepare_patches driver for file and ORACLE_HOME sources (run_opatch)    *)
(* and the /etc/oratab walk (check_oratab_release_update).                 *)
(*                                                                         *)
(* A Python str is the sequence of its code points; a Python dict is a    *)
(* sequence of entries in insertion order; an optional value is <<>>       *)
(* (None) or a one-element sequence. The file system and the opatch        *)
(* executables the program meets are the function fs from path to what    *)
(* the operating system answers there.                                     *)
(***************************************************************************)
EXTENDS Integers, Sequences, FiniteSets, TLC

VARIABLES
    pc,                  \* the function the program is executing
    lines,               \* the line sequence handed to the running decoder
    idx,                 \* number of lines the decoder's for loop has consumed
    patches,             \* the decoder's local dict
    current_id,          \* read_lsinventory: None (<<>>) or <<int>>
    current_desc,        \* read_lsinventory: None or a str
    extra_lines,         \* read_lsinventory: list of str
    is_capturing_extra,  \* read_lsinventory: bool
    returned,            \* TRUE once the decoder has executed its return
    result,              \* the Patch Set the source being read came to
    first,               \* prepare_patches: first, an OPatchArg
    second,              \* prepare_patches: second, None or <<an OPatchArg>>
    ru,                  \* args.release_update
    short,               \* args.short
    oratab,              \* args.oratab
    fs,                  \* path -> [kind, text]: what is found at the path
                         \* (text: the content of a file, or what the
                         \* opatch of an ORACLE_HOME prints)
    which,               \* the source prepare_patches is reading: 1 or 2
    src,                 \* the OPatchArg being read
    patches1,            \* prepare_patches: patches1
    patches2,            \* prepare_patches: patches2
    found,               \* check_oratab_release_update: found
    pos,                 \* number of /etc/oratab lines consumed
    written,             \* the files the program wrote: <<[path, text], ...>>
    out,                 \* what the program printed, one entry per print call
    exit_code,           \* None (<<>>) or <<status>> once the process has ended
    raised               \* "" or the name of the uncaught exception

vars == <<pc, lines, idx, patches, current_id, current_desc, extra_lines,
          is_capturing_extra, returned, result, first, second, ru, short,
          oratab, fs, which, src, patches1, patches2, found, pos, written,
          out, exit_code, raised>>

\* the command line: no function assigns it
args == <<first, second, ru, short, oratab>>

\* the locals of read_lsinventory
inventory == <<current_id, current_desc, extra_lines, is_capturing_extra>>

\* the locals of prepare_patches and check_oratab_release_update
driver == <<which, src, patches1, patches2, found, pos, written>>

----------------------------------------------------------------------------
(* Bounds of the model.                                                    *)

\* longest line sequence handed to read_lspatches in SpecA
MaxLinesA == 3
\* longest line sequence handed to read_lsinventory in SpecB
MaxLinesB == 5
\* most lines of /etc/oratab in Spec
MaxOratab == 2

----------------------------------------------------------------------------
(* Python str operations.                                                  *)

\* A character is its Unicode code point. The printable ASCII characters,
\* by code point from 32 (space) to 126 (~), to write text with:
Ascii ==
    <<" ", "!", "\"", "#", "$", "%", "&", "'", "(", ")", "*", "+", ",",
      "-", ".", "/", "0", "1", "2", "3", "4", "5", "6", "7", "8", "9", ":",
      ";", "<", "=", ">", "?", "@", "A", "B", "C", "D", "E", "F", "G", "H",
      "I", "J", "K", "L", "M", "N", "O", "P", "Q", "R", "S", "T", "U", "V",
      "W", "X", "Y", "Z", "[", "\\", "]", "^", "_", "grave", "a", "b", "c",
      "d", "e", "f", "g", "h", "i", "j", "k", "l", "m", "n", "o", "p", "q",
      "r", "s", "t", "u", "v", "w", "x", "y", "z", "{", "|", "}", "~">>

\* ord(c) of a printable ASCII character (the entry "grave" holds the place
\* of code point 96, which no literal of the program uses)
Ord(c) == 31 + CHOOSE i \in DOMAIN Ascii : Ascii[i] = c

\* the str written as a tuple of printable ASCII characters
T(s) == [i \in DOMAIN s |-> Ord(s[i])]

Semicolon == Ord(";")

Colon == Ord(":")

DoubleQuote == Ord("\"")

Underscore == Ord("_")

Plus == Ord("+")

Minus == Ord("-")

Hash == Ord("#")

Slash == Ord("/")

Space == Ord(" ")

\* "\n"
Newline == 10

\* "\r"
CarriageReturn == 13

\* sys.get_int_max_str_digits(): int() raises ValueError for a literal of
\* more digits
MaxStrDigits == 4300

\* the characters str.strip() removes and the regex class \s matches
\* (str.isspace): \t \n \v \f \r, \x1c-\x1f, space, \x85, \xa0 and the
\* Unicode spaces and separators
Whitespace ==
    {9, 10, 11, 12, 13, 28, 29, 30, 31, 32, 133, 160, 5760}
    \cup (8192..8202)
    \cup {8232, 8233, 8239, 8287, 12288}

\* the characters int() skips around a literal: the same but \x1c-\x1f,
\* which int() leaves in place and then rejects
IntWhitespace == Whitespace \ {28, 29, 30, 31}

\* the code points of the digits ZERO of Unicode 14 (category Nd): each
\* starts a run of the ten digits 0..9 of one script
DigitZeros ==
    {48, 1632, 1776, 1984, 2406, 2534, 2662, 2790, 2918, 3046, 3174, 3302,
     3430, 3558, 3664, 3792, 3872, 4160, 4240, 6112, 6160, 6470, 6608,
     6784, 6800, 6992, 7088, 7232, 7248, 42528, 43216, 43264, 43472, 43504,
     43600, 44016, 65296, 66720, 68912, 69734, 69872, 69942, 70096, 70384,
     70736, 70864, 71248, 71360, 71472, 71904, 72016, 72784, 73040, 73120,
     92768, 92864, 93008, 120782, 120792, 120802, 120812, 120822, 123200,
     123632, 125264, 130032}

\* the characters the regex class \d matches and int() reads as digits
Digits == UNION {z..(z + 9) : z \in DigitZeros}

\* the value of a digit
DigitVal(c) == c - (CHOOSE z \in DigitZeros : c \in z..(z + 9))

None == <<>>

Some(v) == <<v>>

RECURSIVE LStrip(_)
LStrip(s) ==
    IF s # <<>> /\ s[1] \in Whitespace THEN LStrip(Tail(s)) ELSE s

RECURSIVE RStrip(_)
RStrip(s) ==
    IF s # <<>> /\ s[Len(s)] \in Whitespace
    THEN RStrip(SubSeq(s, 1, Len(s) - 1))
    ELSE s

\* str.strip()
Strip(s) == RStrip(LStrip(s))

\* str.find(c) for a one-character c: the 0-based index of the first
\* occurrence, or -1
Find(s, c) ==
    IF \E i \in DOMAIN s : s[i] = c
    THEN (CHOOSE i \in DOMAIN s :
              s[i] = c /\ \A j \in 1..(i - 1) : s[j] # c) - 1
    ELSE -1

\* str.split(c, 1) of a str that holds c: <<left of the first c, the rest>>
SplitFirst(s, c) ==
    LET k == Find(s, c) + 1
    IN  <<SubSeq(s, 1, k - 1), SubSeq(s, k + 1, Len(s))>>

\* str.startswith(prefix)
StartsWith(s, prefix) ==
    Len(s) >= Len(prefix) /\ SubSeq(s, 1, Len(prefix)) = prefix

\* whether prefix occurs in s at the 1-based position p
StartsAt(s, p, prefix) ==
    p + Len(prefix) - 1 <= Len(s)
    /\ SubSeq(s, p, p + Len(prefix) - 1) = prefix

\* the first position >= i of s holding a character outside class, the
\* position past the end of s if there is none
Skip(s, i, class) ==
    IF i > Len(s) THEN i
    ELSE CHOOSE k \in i..(Len(s) + 1) :
             /\ k = Len(s) + 1 \/ s[k] \notin class
             /\ \A j \in i..(k - 1) : s[j] \in class

\* the digits of an int literal after its sign: digits, single underscores
\* only between digits
DigitBody(b) ==
    /\ b # <<>>
    /\ \A i \in DOMAIN b : b[i] \in Digits \cup {Underscore}
    /\ b[1] # Underscore
    /\ b[Len(b)] # Underscore
    /\ \A i \in 1..(Len(b) - 1) : ~(b[i] = Underscore /\ b[i + 1] = Underscore)

Unsigned(t) ==
    IF t # <<>> /\ t[1] \in {Plus, Minus} THEN Tail(t) ELSE t

\* s without the leading and trailing characters of class
RECURSIVE Trim(_, _)
Trim(s, class) ==
    IF s # <<>> /\ s[1] \in class THEN Trim(Tail(s), class)
    ELSE IF s # <<>> /\ s[Len(s)] \in class
    THEN Trim(SubSeq(s, 1, Len(s) - 1), class)
    ELSE s

\* whether int(s) returns (TRUE) or raises ValueError (FALSE): the literal
\* is well formed and holds at most MaxStrDigits digits
IntParses(s) ==
    LET b == Unsigned(Trim(s, IntWhitespace))
    IN  /\ DigitBody(b)
        /\ Cardinality({i \in DOMAIN b : b[i] # Underscore}) <= MaxStrDigits

RECURSIVE DigitsValue(_, _)
DigitsValue(b, acc) ==
    IF b = <<>> THEN acc
    ELSE IF b[1] = Underscore THEN DigitsValue(Tail(b), acc)
    ELSE DigitsValue(Tail(b), 10 * acc + DigitVal(b[1]))

\* int(s), for s with IntParses(s)
IntValue(s) ==
    LET t == Trim(s, IntWhitespace)
        v == DigitsValue(Unsigned(t), 0)
    IN  IF t[1] = Minus THEN 0 - v ELSE v

\* sep.join(list of str)
RECURSIVE Join(_, _)
Join(list, sep) ==
    IF list = <<>> THEN <<>>
    ELSE IF Len(list) = 1 THEN list[1]
    ELSE list[1] \o sep \o Join(Tail(list), sep)

\* str.split(c) for a one-character c
RECURSIVE Split(_, _)
Split(s, c) ==
    IF Find(s, c) = -1 THEN <<s>>
    ELSE <<SplitFirst(s, c)[1]>> \o Split(SplitFirst(s, c)[2], c)

\* the line boundaries of str.splitlines(): \n \v \f \r, \x1c-\x1e, \x85,
\* \u2028, \u2029
LineBreaks == {10, 11, 12, 13, 28, 29, 30, 133, 8232, 8233}

\* str.splitlines(): the lines without their ends; "\r\n" is one boundary
\* and a final boundary opens no further line
RECURSIVE SplitLines(_)
SplitLines(s) ==
    LET breaks == {k \in DOMAIN s : s[k] \in LineBreaks}
        i == IF breaks = {} THEN Len(s) + 1
             ELSE CHOOSE k \in breaks : \A j \in breaks : k <= j
        after == IF i < Len(s) /\ s[i] = CarriageReturn /\ s[i + 1] = Newline
                 THEN i + 2 ELSE i + 1
    IN  IF s = <<>> THEN <<>>
        ELSE IF i > Len(s) THEN <<s>>
        ELSE <<SubSeq(s, 1, i - 1)>> \o SplitLines(SubSeq(s, after, Len(s)))

\* the text a file opened in text mode, or a pipe read with
\* universal_newlines, delivers for the content s: "\r\n" and "\r" become
\* "\n"
RECURSIVE UniversalNewlines(_)
UniversalNewlines(s) ==
    LET i == Find(s, CarriageReturn) + 1
        after == IF i < Len(s) /\ s[i + 1] = Newline THEN i + 2 ELSE i + 1
    IN  IF i = 0 THEN s
        ELSE SubSeq(s, 1, i - 1) \o <<Newline>>
             \o UniversalNewlines(SubSeq(s, after, Len(s)))

\* "for line in f" on a file delivering the text s: the lines with their
\* "\n"
RECURSIVE FileLines(_)
FileLines(s) ==
    LET i == Find(s, Newline) + 1
    IN  IF s = <<>> THEN <<>>
        ELSE IF i = 0 THEN <<s>>
        ELSE <<SubSeq(s, 1, i)>> \o FileLines(SubSeq(s, i + 1, Len(s)))

\* os.path.join(a, b) for a relative b
OsPathJoin(a, b) ==
    IF a = <<>> \/ a[Len(a)] = Slash THEN a \o b ELSE a \o <<Slash>> \o b

----------------------------------------------------------------------------
(* The Patch Set: a dict from identifier to record, in insertion order.    *)

Keys(p) == {p[i].id : i \in DOMAIN p}

\* p[id], for id in Keys(p)
Get(p, id) == p[CHOOSE i \in DOMAIN p : p[i].id = id]

\* p[id] = {"description": desc, "extra_lines": extra}: a key already
\* present keeps its place, a new key goes last
Put(p, id, desc, extra) ==
    LET rec == [id |-> id, description |-> desc, extra_lines |-> extra]
    IN  IF id \in Keys(p)
        THEN [i \in DOMAIN p |-> IF p[i].id = id THEN rec ELSE p[i]]
        ELSE Append(p, rec)

\* the truth value of a dict
Truthy(p) == p # <<>>

----------------------------------------------------------------------------
(* Where a decoder returns to.                                             *)

\* the caller of the running decoder, past the call: read_opatch_source
\* (through read_patches or run_opatch) under prepare_patches, and
\* check_oratab_release_update (through run_opatch) under --oratab
ReturnTo == IF oratab THEN "oratab_patches" ELSE "read_opatch_source"

----------------------------------------------------------------------------
(* read_lspatches                                                          *)

\* the loop body of read_lspatches on one line: the dict after it, and
\* whether it ended the process with sys.exit(1)
LspatchesLineSkipsInvalid(p, raw) ==
    LET line == Strip(raw)
    IN  IF line = <<>> \/ Find(line, Semicolon) = -1
        THEN [patches |-> p, exit |-> FALSE]
        ELSE LET num  == SplitFirst(line, Semicolon)[1]
                 desc == SplitFirst(line, Semicolon)[2]
             IN  IF IntParses(num)
                 THEN [patches |-> Put(p, IntValue(num), Some(desc), <<>>),
                       exit |-> FALSE]
                 ELSE [patches |-> p, exit |-> FALSE]

LspatchesLine(p, raw) ==
    LET line == Strip(raw)
    IN  IF line = <<>> \/ Find(line, Semicolon) = -1
        THEN [patches |-> p, exit |-> FALSE]
        ELSE LET num  == SplitFirst(line, Semicolon)[1]
                 desc == SplitFirst(line, Semicolon)[2]
             IN  IF IntParses(num)
                 THEN [patches |-> Put(p, IntValue(num), Some(desc), <<>>),
                       exit |-> FALSE]
                 ELSE [patches |-> p, exit |-> TRUE]

\* one iteration of the for loop of read_lspatches
ReadLspatchesLine ==
    /\ pc = "read_lspatches"
    /\ idx < Len(lines)
    /\ LET r == LspatchesLine(patches, lines[idx + 1])
       IN  /\ idx' = idx + 1
           /\ patches' = r.patches
           /\ IF r.exit
              THEN /\ pc' = "exit"
                   /\ exit_code' = Some(1)
                   /\ out' = Append(out, [tag |-> "error_invalid_patch_id",
                                          num |-> 0,
                                          text |-> SplitFirst(Strip(lines[idx + 1]), Semicolon)[1]])
              ELSE UNCHANGED <<pc, exit_code, out>>
    /\ UNCHANGED <<lines, inventory, returned, result, args, fs, driver, raised>>

\* the loop is over: return patches
ReadLspatchesReturn ==
    /\ pc = "read_lspatches"
    /\ idx = Len(lines)
    /\ pc' = ReturnTo
    /\ returned' = TRUE
    /\ result' = patches
    /\ UNCHANGED <<lines, idx, patches, inventory, args, fs, driver, out,
                   exit_code, raised>>

----------------------------------------------------------------------------
(* read_lsinventory                                                        *)

W_Patch == T(<<"P", "a", "t", "c", "h">>)

W_description == T(<<"d", "e", "s", "c", "r", "i", "p", "t", "i", "o", "n">>)

NoMatch == [matched |-> FALSE, group |-> <<>>]

\* re.search(r"^Patch\s+(\d+)\s+:", line): whether it matches, and group 1
MatchHeader(line) ==
    LET a == Len(W_Patch) + 1
        b == Skip(line, a, Whitespace)
        c == Skip(line, b, Digits)
        d == Skip(line, c, Whitespace)
    IN  IF /\ StartsWith(line, W_Patch)
           /\ b > a
           /\ c > b
           /\ d > c
           /\ d <= Len(line)
           /\ line[d] = Colon
        THEN [matched |-> TRUE, group |-> SubSeq(line, b, c - 1)]
        ELSE NoMatch

\* the pattern Patch\s+description\s*:\s*"(.*)" tried at position p of
\* line: (.*) is greedy and . matches all but "\n", so group 1 ends at the
\* last double quote that no "\n" separates from the opening one
MatchDescAt(line, p) ==
    LET a == p + Len(W_Patch)
        b == Skip(line, a, Whitespace)
        c == b + Len(W_description)
        d == Skip(line, c, Whitespace)
        e == Skip(line, d + 1, Whitespace)
        closing == {q \in (e + 1)..Len(line) :
                       /\ line[q] = DoubleQuote
                       /\ \A r \in (e + 1)..(q - 1) : line[r] # Newline}
    IN  IF /\ StartsAt(line, p, W_Patch)
           /\ b > a
           /\ StartsAt(line, b, W_description)
           /\ d <= Len(line)
           /\ line[d] = Colon
           /\ e <= Len(line)
           /\ line[e] = DoubleQuote
           /\ closing # {}
        THEN [matched |-> TRUE,
              group |-> SubSeq(line, e + 1,
                          (CHOOSE q \in closing : \A r \in closing : r <= q) - 1)]
        ELSE NoMatch

\* re.search(r'Patch\s+description\s*:\s*"(.*)"', line): the leftmost match
MatchDesc(line) ==
    LET starts == {p \in DOMAIN line : MatchDescAt(line, p).matched}
    IN  IF starts = {} THEN NoMatch
        ELSE MatchDescAt(line, CHOOSE p \in starts : \A q \in starts : p <= q)

\* the truth value of current_id: neither None nor 0
IdTruthy(cid) == cid # None /\ cid[1] # 0

\* "if current_id: patches[current_id] = {...}" with the given separator
Finalize(p, cid, desc, extra, sep) ==
    IF IdTruthy(cid) THEN Put(p, cid[1], desc, Join(extra, sep)) ELSE p

\* the capture branch of the loop body, for a line that is neither a header
\* nor an accepted description line: the buffer and the flag after it
CaptureStepNeverStops(extra, capturing, cid, line) ==
    IF capturing /\ IdTruthy(cid)
    THEN IF Strip(line) # <<>>
         THEN [extra_lines |-> Append(extra, line), is_capturing_extra |-> TRUE]
         ELSE [extra_lines |-> extra, is_capturing_extra |-> TRUE]
    ELSE [extra_lines |-> extra, is_capturing_extra |-> capturing]

CaptureStep(extra, capturing, cid, line) ==
    IF capturing /\ IdTruthy(cid)
    THEN IF Strip(line) # <<>>
         THEN [extra_lines |-> Append(extra, line), is_capturing_extra |-> TRUE]
         ELSE [extra_lines |-> extra, is_capturing_extra |-> FALSE]
    ELSE [extra_lines |-> extra, is_capturing_extra |-> capturing]

\* one iteration of the for loop of read_lsinventory; int() at line 54
\* raises ValueError, which nothing catches, for a header of more than
\* MaxStrDigits digits
ReadLsinventoryLine ==
    /\ pc = "read_lsinventory"
    /\ idx < Len(lines)
    /\ idx' = idx + 1
    /\ LET line == lines[idx + 1]
           patch_match == MatchHeader(line)
           desc_match == MatchDesc(line)
           cap == CaptureStep(extra_lines, is_capturing_extra, current_id, line)
       IN  IF patch_match.matched /\ ~IntParses(patch_match.group)
           THEN /\ patches' = Finalize(patches, current_id, current_desc,
                                       extra_lines, <<Newline>>)
                /\ raised' = "ValueError"
                /\ exit_code' = Some(1)
                /\ pc' = "exit"
                /\ UNCHANGED inventory
           ELSE IF patch_match.matched
           THEN /\ patches' = Finalize(patches, current_id, current_desc,
                                       extra_lines, <<Newline>>)
                /\ current_id' = Some(IntValue(patch_match.group))
                /\ current_desc' = None
                /\ extra_lines' = <<>>
                /\ is_capturing_extra' = FALSE
                /\ UNCHANGED <<pc, exit_code, raised>>
           ELSE IF desc_match.matched /\ IdTruthy(current_id)
           THEN /\ current_desc' = Some(desc_match.group)
                /\ is_capturing_extra' = TRUE
                /\ UNCHANGED <<patches, current_id, extra_lines, pc,
                               exit_code, raised>>
           ELSE /\ extra_lines' = cap.extra_lines
                /\ is_capturing_extra' = cap.is_capturing_extra
                /\ UNCHANGED <<patches, current_id, current_desc, pc,
                               exit_code, raised>>
    /\ UNCHANGED <<lines, returned, result, args, fs, driver, out>>

\* the loop is over: finalize the open record and return patches
ReadLsinventoryReturn ==
    /\ pc = "read_lsinventory"
    /\ idx = Len(lines)
    /\ patches' = Finalize(patches, current_id, current_desc, extra_lines, <<>>)
    /\ pc' = ReturnTo
    /\ returned' = TRUE
    /\ result' = patches'
    /\ UNCHANGED <<lines, idx, inventory, args, fs, driver, out, exit_code, raised>>

----------------------------------------------------------------------------
(* Printed output: one entry per print call, tagged by the call.           *)

Ev(tag, num, text) == [tag |-> tag, num |-> num, text |-> text]

W_None == T(<<"N", "o", "n", "e">>)

\* how an f-string renders a description: str(None) is "None"
Str(desc) == IF desc = None THEN W_None ELSE desc[1]

----------------------------------------------------------------------------
(* Release-update extraction.                                              *)

ReleaseUpdateMarker ==
    T(<<"D", "a", "t", "a", "b", "a", "s", "e", " ", "R", "e", "l", "e",
      "a", "s", "e", " ", "U", "p", "d", "a", "t", "e">>)

\* "for num in patches: if patches[num]['description'].startswith(...)":
\* the scan from entry i on. None has no startswith: AttributeError
RECURSIVE ScanReleaseUpdate(_, _)
ScanReleaseUpdate(p, i) ==
    IF i > Len(p) THEN [kind |-> "not_found", description |-> None]
    ELSE IF p[i].description = None
    THEN [kind |-> "raise", description |-> None]
    ELSE IF StartsWith(p[i].description[1], ReleaseUpdateMarker)
    THEN [kind |-> "found", description |-> p[i].description]
    ELSE ScanReleaseUpdate(p, i + 1)

\* the truth value of an optional str: neither None nor ""
StrTruthy(d) == d # None /\ d[1] # <<>>

\* print_release_update(patches): what it prints, and whether it raises
PrintReleaseUpdate(p) ==
    LET s == ScanReleaseUpdate(p, 1)
        header == <<Ev("ru_header", 0, <<>>)>>
    IN  IF ~Truthy(p) THEN [out |-> <<>>, raised |-> FALSE]
        ELSE IF s.kind = "raise" THEN [out |-> header, raised |-> TRUE]
        ELSE IF s.kind = "found"
        THEN [out |-> Append(header, Ev("ru_found", 0, s.description[1])),
              raised |-> FALSE]
        ELSE [out |-> Append(header, Ev("ru_not_found", 0, <<>>)),
              raised |-> FALSE]

\* check_release_update(first, second): what it prints, and whether it raises
CheckReleaseUpdate(p1, p2) ==
    LET s1 == ScanReleaseUpdate(p1, 1)
        s2 == ScanReleaseUpdate(p2, 1)
        ru1 == s1.description
        ru2 == s2.description
    IN  IF s1.kind = "raise" \/ s2.kind = "raise"
        THEN [out |-> <<>>, raised |-> TRUE]
        ELSE IF StrTruthy(ru1) /\ StrTruthy(ru2) /\ ru1 # ru2
        THEN [out |-> <<Ev("ru_warning", 0, <<>>),
                        Ev("ru_warning_first", 0, ru1[1]),
                        Ev("ru_warning_second", 0, ru2[1])>>,
              raised |-> FALSE]
        ELSE IF StrTruthy(ru1)
        THEN [out |-> <<Ev("ru_report", 0, ru1[1])>>, raised |-> FALSE]
        ELSE [out |-> <<>>, raised |-> FALSE]

----------------------------------------------------------------------------
(* compare_patches                                                         *)

\* sorted(S) for a set of integers
RECURSIVE Sorted(_)
Sorted(S) ==
    IF S = {} THEN <<>>
    ELSE LET m == CHOOSE x \in S : \A y \in S : x <= y
         IN  <<m>> \o Sorted(S \ {m})

\* the for loop over patches_dif: one line per patch, and its extra lines
\* unless args.short or there are none
RECURSIVE ListPatches(_, _, _, _, _)
ListPatches(dif, p, tag, extra_tag, is_short) ==
    IF dif = <<>> THEN <<>>
    ELSE LET patch_data == Get(p, Head(dif))
             line == <<Ev(tag, Head(dif), Str(patch_data.description))>>
             extra == IF ~is_short /\ patch_data.extra_lines # <<>>
                      THEN <<Ev(extra_tag, Head(dif), patch_data.extra_lines)>>
                      ELSE <<>>
         IN  line \o extra \o ListPatches(Tail(dif), p, tag, extra_tag, is_short)

\* one "Patches only in ..." section of the report
OnlyIn(p, q, sources, header, none_tag, tag, extra_tag, is_short) ==
    LET patches_dif == Sorted(Keys(p) \ Keys(q))
    IN  <<Ev(header, 0, <<>>)>> \o
        (IF patches_dif = <<>>
         THEN <<Ev(none_tag, 0, sources)>>
         ELSE ListPatches(patches_dif, p, tag, extra_tag, is_short))

W_ORACLE_HOME ==
    T(<<"O", "R", "A", "C", "L", "E", "_", "H", "O", "M", "E", ":", " ">>)

W_file == T(<<"f", "i", "l", "e", ":", " ">>)

\* sources1 and sources2 of compare_patches: the source's labelled path
Sources(s) ==
    IF s.source = "oracle_home" THEN W_ORACLE_HOME \o s.path
    ELSE W_file \o s.path

\* compare_patches up to its call of check_release_update
SummaryOut(s1, s2, p1, p2) ==
    <<Ev("summary", 0, <<>>),
      Ev("summary_first", Len(p1), Sources(s1)),
      Ev("summary_second", Len(p2), Sources(s2))>>

\* compare_patches after check_release_update has returned
DifferencesOut(s1, s2, p1, p2, is_short) ==
    OnlyIn(p1, p2, Sources(s1), "only_first_header", "no_patches_only_first",
           "only_first", "extra_first", is_short)
    \o OnlyIn(p2, p1, Sources(s2), "only_second_header",
              "no_patches_only_second", "only_second", "extra_second",
              is_short)

ComparePatches ==
    /\ pc = "compare_patches"
    /\ LET c == CheckReleaseUpdate(patches1, patches2)
       IN  /\ pc' = "exit"
           /\ exit_code' = IF c.raised THEN Some(1) ELSE Some(0)
           /\ raised' = IF c.raised THEN "AttributeError" ELSE raised
           /\ out' = out \o SummaryOut(first, second[1], patches1, patches2)
                     \o c.out \o
                     (IF c.raised THEN <<>>
                      ELSE DifferencesOut(first, second[1], patches1,
                                          patches2, short))
    /\ UNCHANGED <<lines, idx, patches, inventory, returned, result, args,
                   fs, driver>>

----------------------------------------------------------------------------
(* read_patches, run_opatch, read_opatch_source and prepare_patches.       *)

\* OPatchArg(source, path, lspatches, lsinventory, output); no function
\* reads the field lsinventory, which is left out
OPatchArg(source, path, is_lspatches, output) ==
    [source |-> source, path |-> path, lspatches |-> is_lspatches,
     output |-> output]

W_OracleInterimPatchInstaller ==
    T(<<"O", "r", "a", "c", "l", "e", " ", "I", "n", "t", "e", "r", "i",
      "m", " ", "P", "a", "t", "c", "h", " ", "I", "n", "s", "t", "a",
      "l", "l", "e", "r">>)

W_InterimPatches ==
    T(<<"I", "n", "t", "e", "r", "i", "m", " ", "p", "a", "t", "c", "h",
      "e", "s">>)

\* is_lsinventory(lines)
IsLsinventory(ls) ==
    \E i \in DOMAIN ls :
        \/ StartsWith(ls[i], W_OracleInterimPatchInstaller)
        \/ StartsWith(ls[i], W_InterimPatches)

\* the locals of a decoder at its call
DecoderCalled ==
    /\ idx' = 0
    /\ patches' = <<>>
    /\ current_id' = None
    /\ current_desc' = None
    /\ extra_lines' = <<>>
    /\ is_capturing_extra' = FALSE
    /\ returned' = FALSE

\* the branch of read_opatch_source a source takes
Call(s) == IF s.source = "file" THEN "read_patches" ELSE "run_opatch"

\* os.path.isdir(path): the kinds of a directory say what its OPatch/opatch
\* is
IsDir(path) ==
    fs[path].kind \in {"no_opatch", "not_executable", "not_runnable", "fails",
                       "runs"}

\* read_patches(filename) up to its call of a decoder; open() raises
\* FileNotFoundError where there is nothing and IsADirectoryError on a
\* directory
ReadPatches ==
    /\ pc = "read_patches"
    /\ LET filename == src.path
           content == SplitLines(UniversalNewlines(fs[filename].text))
       IN  IF fs[filename].kind # "file"
           THEN /\ raised' = IF IsDir(filename) THEN "IsADirectoryError"
                              ELSE "FileNotFoundError"
                /\ pc' = "exit"
                /\ exit_code' = Some(1)
                /\ UNCHANGED <<lines, out>>
           ELSE /\ lines' = content
                /\ UNCHANGED raised
                /\ IF content = <<>>
                   THEN /\ out' = Append(out, Ev("error_no_lines", 0, filename))
                        /\ pc' = "exit"
                        /\ exit_code' = Some(1)
                   ELSE IF IsLsinventory(content)
                   THEN /\ out' = Append(out, Ev("reading_lsinventory", 0,
                                                  filename))
                        /\ pc' = "read_lsinventory"
                        /\ UNCHANGED exit_code
                   ELSE /\ out' = Append(out, Ev("reading_lspatches", 0,
                                                  filename))
                        /\ pc' = "read_lspatches"
                        /\ UNCHANGED exit_code
    /\ DecoderCalled
    /\ result' = <<>>
    /\ UNCHANGED <<args, fs, driver>>

W_OPatch == T(<<"O", "P", "a", "t", "c", "h">>)

W_opatch == T(<<"o", "p", "a", "t", "c", "h">>)

W_lspatches == T(<<"l", "s", "p", "a", "t", "c", "h", "e", "s">>)

W_lsinventory == T(<<"l", "s", "i", "n", "v", "e", "n", "t", "o", "r", "y">>)

\* check_opatch_path(oracle_home): what it prints, and the path it returns
\* or None
CheckOpatchPath(oracle_home) ==
    LET opatch_path == OsPathJoin(OsPathJoin(oracle_home, W_OPatch), W_opatch)
        kind == fs[oracle_home].kind
    IN  IF ~IsDir(oracle_home)
        THEN [out |-> <<Ev("error_no_directory", 0, oracle_home)>>,
              opatch |-> None]
        ELSE IF kind = "no_opatch"
        THEN [out |-> <<Ev("error_no_opatch", 0, opatch_path)>>,
              opatch |-> None]
        ELSE IF kind = "not_executable"
        THEN [out |-> <<Ev("error_not_executable", 0, opatch_path)>>,
              opatch |-> None]
        ELSE [out |-> <<>>, opatch |-> Some(opatch_path)]

\* run_opatch(source) up to its return of {} or to the decoder that
\* read_opatch_output calls. subprocess.run raises CalledProcessError when
\* opatch ends with a status other than 0 (kind "fails") and OSError when
\* it cannot be started (kind "not_runnable"); result.stdout is what opatch
\* printed, with universal newlines. open(source.output, "w") raises
\* IsADirectoryError on a directory; the file written is there for a later
\* open()
RunOpatch ==
    /\ pc = "run_opatch"
    /\ LET opatch == CheckOpatchPath(src.path)
           kind == fs[src.path].kind
           stdout == UniversalNewlines(fs[src.path].text)
           opatch_arg == IF src.lspatches THEN W_lspatches ELSE W_lsinventory
           cmd == opatch.opatch[1] \o <<Space>> \o opatch_arg
           running == Append(out, Ev("running_command", 0, cmd))
           save == StrTruthy(src.output)
           saved == IF save
                    THEN Append(running, Ev("output_saved", 0, src.output[1]))
                    ELSE running
       IN  IF opatch.opatch = None
           THEN /\ out' = out \o opatch.out
                /\ pc' = ReturnTo
                /\ UNCHANGED <<lines, fs, written, exit_code, raised>>
           ELSE IF kind = "fails"
           THEN /\ out' = Append(running, Ev("error_command_failed", 0, cmd))
                /\ pc' = "exit"
                /\ exit_code' = Some(1)
                /\ UNCHANGED <<lines, fs, written, raised>>
           ELSE IF kind = "not_runnable"
           THEN /\ out' = running
                /\ raised' = "OSError"
                /\ pc' = "exit"
                /\ exit_code' = Some(1)
                /\ UNCHANGED <<lines, fs, written>>
           ELSE IF stdout = <<>>
           THEN /\ out' = running
                /\ pc' = ReturnTo
                /\ UNCHANGED <<lines, fs, written, exit_code, raised>>
           ELSE IF save /\ IsDir(src.output[1])
           THEN /\ out' = running
                /\ raised' = "IsADirectoryError"
                /\ pc' = "exit"
                /\ exit_code' = Some(1)
                /\ UNCHANGED <<lines, fs, written>>
           ELSE /\ written' = IF save
                              THEN Append(written, [path |-> src.output[1],
                                                    text |-> stdout])
                              ELSE written
                /\ fs' = IF save
                         THEN [fs EXCEPT ![src.output[1]] =
                                             [kind |-> "file", text |-> stdout]]
                         ELSE fs
                /\ lines' = SplitLines(stdout)
                /\ IF src.lspatches
                   THEN /\ out' = Append(saved, Ev("reading_lspatches_home", 0,
                                                   src.path))
                        /\ pc' = "read_lspatches"
                   ELSE /\ out' = Append(saved, Ev("reading_lsinventory_home",
                                                   0, src.path))
                        /\ pc' = "read_lsinventory"
                /\ UNCHANGED <<exit_code, raised>>
    /\ DecoderCalled
    /\ result' = <<>>
    /\ UNCHANGED <<args, which, src, patches1, patches2, found, pos>>

\* read_opatch_source(src) after read_patches or run_opatch has returned,
\* and the assignment of its result in prepare_patches
ReadOpatchSource ==
    /\ pc = "read_opatch_source"
    /\ out' = IF Truthy(result) THEN out
              ELSE IF src.source = "file"
              THEN Append(out, Ev("no_patches_found_file", 0, src.path))
              ELSE Append(out, Ev("no_patches_found_home", 0, src.path))
    /\ IF which = 1
       THEN /\ patches1' = result
            /\ pc' = "prepare_first"
            /\ UNCHANGED patches2
       ELSE /\ patches2' = result
            /\ pc' = "prepare_second"
            /\ UNCHANGED patches1
    /\ UNCHANGED <<lines, idx, patches, inventory, returned, result, args,
                   fs, which, src, found, pos, written, exit_code, raised>>

\* prepare_patches from the first source's Patch Set to the read of the second
PrepareFirst ==
    /\ pc = "prepare_first"
    /\ LET r == IF ru \/ second = None
                THEN PrintReleaseUpdate(patches1)
                ELSE [out |-> <<>>, raised |-> FALSE]
       IN  IF r.raised
           THEN /\ out' = out \o r.out
                /\ raised' = "AttributeError"
                /\ exit_code' = Some(1)
                /\ pc' = "exit"
                /\ UNCHANGED <<which, src>>
           ELSE IF ~Truthy(patches1)
           THEN /\ out' = out \o r.out
                /\ exit_code' = Some(1)
                /\ pc' = "exit"
                /\ UNCHANGED <<which, src, raised>>
           ELSE IF second = None
           THEN /\ out' = out \o r.out
                /\ exit_code' = Some(0)
                /\ pc' = "exit"
                /\ UNCHANGED <<which, src, raised>>
           ELSE /\ out' = (out \o r.out) \o <<Ev("blank", 0, <<>>)>>
                /\ which' = 2
                /\ src' = second[1]
                /\ pc' = Call(second[1])
                /\ UNCHANGED <<exit_code, raised>>
    /\ UNCHANGED <<lines, idx, patches, inventory, returned, result, args,
                   fs, patches1, patches2, found, pos, written>>

\* prepare_patches from the second source's Patch Set to compare_patches
PrepareSecond ==
    /\ pc = "prepare_second"
    /\ LET r == IF ru
                THEN PrintReleaseUpdate(patches2)
                ELSE [out |-> <<>>, raised |-> FALSE]
       IN  /\ out' = out \o r.out
           /\ IF r.raised
              THEN /\ raised' = "AttributeError"
                   /\ exit_code' = Some(1)
                   /\ pc' = "exit"
              ELSE IF ~Truthy(patches2)
              THEN /\ exit_code' = Some(1)
                   /\ pc' = "exit"
                   /\ UNCHANGED raised
              ELSE IF ru
              THEN /\ exit_code' = Some(0)
                   /\ pc' = "exit"
                   /\ UNCHANGED raised
              ELSE /\ pc' = "compare_patches"
                   /\ UNCHANGED <<exit_code, raised>>
    /\ UNCHANGED <<lines, idx, patches, inventory, returned, result, args,
                   fs, driver>>

----------------------------------------------------------------------------
(* check_oratab_release_update                                             *)

EtcOratab == T(<<"/", "e", "t", "c", "/", "o", "r", "a", "t", "a", "b">>)

\* open('/etc/oratab'): FileNotFoundError where there is nothing at the
\* path, IsADirectoryError where it is a directory
CheckOratabReleaseUpdate ==
    /\ pc = "check_oratab_release_update"
    /\ IF fs[EtcOratab].kind # "file"
       THEN /\ raised' = IF IsDir(EtcOratab) THEN "IsADirectoryError"
                          ELSE "FileNotFoundError"
            /\ exit_code' = Some(1)
            /\ pc' = "exit"
       ELSE /\ pc' = "oratab_line"
            /\ UNCHANGED <<raised, exit_code>>
    /\ UNCHANGED <<lines, idx, patches, inventory, returned, result, args,
                   fs, driver, out>>

\* one iteration of "for line in f" up to its call of run_opatch;
\* line.split(':')[1] raises IndexError on a line without a colon
CheckOratabLine ==
    /\ pc = "oratab_line"
    /\ pos < Len(FileLines(UniversalNewlines(fs[EtcOratab].text)))
    /\ pos' = pos + 1
    /\ LET line == Strip(FileLines(UniversalNewlines(fs[EtcOratab].text))
                          [pos + 1])
           fields == Split(line, Colon)
           oracle_home == fields[2]
       IN  IF line = <<>> \/ StartsWith(line, <<Hash>>)
           THEN UNCHANGED <<pc, src, found, out, exit_code, raised>>
           ELSE IF Len(fields) < 2
           THEN /\ raised' = "IndexError"
                /\ exit_code' = Some(1)
                /\ pc' = "exit"
                /\ UNCHANGED <<src, found, out>>
           ELSE IF oracle_home \in found
           THEN UNCHANGED <<pc, src, found, out, exit_code, raised>>
           ELSE /\ found' = found \cup {oracle_home}
                /\ out' = Append(out, Ev("checking_release_update", 0,
                                         oracle_home))
                /\ src' = OPatchArg("oracle_home", oracle_home, TRUE,
                                    Some(<<>>))
                /\ pc' = "run_opatch"
                /\ UNCHANGED <<exit_code, raised>>
    /\ UNCHANGED <<lines, idx, patches, inventory, returned, result, args,
                   fs, which, patches1, patches2, written>>

\* the iteration after run_opatch has returned: print_release_update(patches)
\* and print()
CheckOratabPatches ==
    /\ pc = "oratab_patches"
    /\ LET r == PrintReleaseUpdate(result)
       IN  IF r.raised
           THEN /\ out' = out \o r.out
                /\ raised' = "AttributeError"
                /\ exit_code' = Some(1)
                /\ pc' = "exit"
           ELSE /\ out' = Append(out \o r.out, Ev("blank", 0, <<>>))
                /\ pc' = "oratab_line"
                /\ UNCHANGED <<exit_code, raised>>
    /\ UNCHANGED <<lines, idx, patches, inventory, returned, result, args,
                   fs, driver>>

\* the file is read through: check_oratab_release_update returns and main
\* calls sys.exit(0)
CheckOratabReturn ==
    /\ pc = "oratab_line"
    /\ pos = Len(FileLines(UniversalNewlines(fs[EtcOratab].text)))
    /\ exit_code' = Some(0)
    /\ pc' = "exit"
    /\ UNCHANGED <<lines, idx, patches, inventory, returned, result, args,
                   fs, driver, out, raised>>

----------------------------------------------------------------------------
(* Inputs.                                                                 *)

\* every sequence over S of length at most n
SeqsUpTo(S, n) == UNION {[1..k -> S] : k \in 0..n}

\* the content of a text file of the given lines, each ended by "\n"
RECURSIVE Text(_)
Text(ls) ==
    IF ls = <<>> THEN <<>> ELSE Head(ls) \o <<Newline>> \o Text(Tail(ls))

Path1 == T(<<"p", "1">>)

Path2 == T(<<"p", "2">>)

Output1 == T(<<"o", "1">>)

Output2 == T(<<"o", "2">>)

\* nothing at the path
Missing == [kind |-> "missing", text |-> <<>>]

\* a literal of one digit more than int() reads
LongDigits == [i \in 1..(MaxStrDigits + 1) |-> Ord("1")]

LinesA ==
    { T(<<"1", ";", "D", "e", "s", "c", " ", "A">>),
      T(<<" ">>) \o <<1634, 160>> \o T(<<";", "b", ";", "c">>),
      T(<<"5">>) \o <<31>> \o T(<<";", "v">>),
      T(<<"-", "5", ";", "x">>),
      T(<<"0", ";", "z">>),
      T(<<"1", "_", "0", ";", "u">>),
      T(<<"a", "b", "c", ";", "B", "a", "d", " ", "I", "D">>),
      T(<<"1", " ", "2", ";", "w">>),
      T(<<";", "d">>),
      T(<<"h", "e", "l", "l", "o">>),
      LongDigits \o T(<<";", "x">>),
      T(<<" ">>) }

\* the state every specification starts from, but for pc and the inputs
Blank ==
    /\ idx = 0
    /\ patches = <<>>
    /\ current_id = None
    /\ current_desc = None
    /\ extra_lines = <<>>
    /\ is_capturing_extra = FALSE
    /\ returned = FALSE
    /\ result = <<>>
    /\ which = 1
    /\ src = first
    /\ patches1 = <<>>
    /\ patches2 = <<>>
    /\ found = {}
    /\ pos = 0
    /\ written = <<>>
    /\ out = <<>>
    /\ exit_code = None
    /\ raised = ""

\* a decoder called on a line sequence, outside any run of the program
Direct ==
    /\ first = OPatchArg("file", Path1, FALSE, Some(<<>>))
    /\ second = None
    /\ ru = FALSE
    /\ short = FALSE
    /\ oratab = FALSE
    /\ fs = [p \in {Path1} |-> Missing]
    /\ Blank

\* read_lspatches called on a line sequence
InitA ==
    /\ pc = "read_lspatches"
    /\ lines \in SeqsUpTo(LinesA, MaxLinesA)
    /\ Direct

NextA == ReadLspatchesLine \/ ReadLspatchesReturn

SpecA == InitA /\ [][NextA]_vars

LinesB ==
    { T(<<"P", "a", "t", "c", "h", " ", "1", " ", ":">>),
      T(<<"P", "a", "t", "c", "h">>) \o <<160, 1634>> \o T(<<" ", ":">>),
      T(<<"P", "a", "t", "c", "h", " ", "0", " ", ":">>),
      T(<<"P", "a", "t", "c", "h", " ", "d", "e", "s", "c", "r", "i", "p", "t",
        "i", "o", "n", " ", ":", " ", "\"", "a", "\"">>),
      T(<<" ", " ", "x">>),
      <<32, 31>>,
      <<>> }

\* read_lsinventory called on a line sequence
InitB ==
    /\ pc = "read_lsinventory"
    /\ lines \in SeqsUpTo(LinesB, MaxLinesB)
    /\ Direct

NextB == ReadLsinventoryLine \/ ReadLsinventoryReturn

SpecB == InitB /\ [][NextB]_vars

----------------------------------------------------------------------------
(* The whole run: main with one or two sources, or with --oratab.          *)

\* lspatches output: two patches, no release update
FileA12 ==
    Text(<<
      T(<<"1", ";", "D", "e", "s", "c", " ", "A">>),
      T(<<"2", ";", "D", "e", "s", "c", " ", "B">>)
    >>)

\* lspatches output with a release update
FileARu21 ==
    Text(<<
      T(<<"2", "0", "2", ";", "D", "a", "t", "a", "b", "a", "s", "e", " ",
        "R", "e", "l", "e", "a", "s", "e", " ", "U", "p", "d", "a", "t",
        "e", " ", "1", "9", ".", "2", "1">>),
      T(<<"1", ";", "D", "e", "s", "c", " ", "A">>)
    >>)

\* lspatches output with another release update
FileARu22 ==
    Text(<<
      T(<<"3", "0", "3", ";", "D", "a", "t", "a", "b", "a", "s", "e", " ",
        "R", "e", "l", "e", "a", "s", "e", " ", "U", "p", "d", "a", "t",
        "e", " ", "1", "9", ".", "2", "2">>)
    >>)

\* a file with lines and no patch record
FileANone ==
    Text(<<
      T(<<"h", "e", "l", "l", "o">>)
    >>)

\* lspatches output with a malformed identifier
FileABad ==
    Text(<<
      T(<<"1", ";", "D", "e", "s", "c", " ", "A">>),
      T(<<"a", "b", "c", ";", "B", "a", "d", " ", "I", "D">>)
    >>)

\* lsinventory output: two records, the second a release update
FileBFull ==
    Text(<<
      T(<<"I", "n", "t", "e", "r", "i", "m", " ", "p", "a", "t", "c", "h",
        "e", "s", " ", "(", "2", ")", " ", ":">>),
      T(<<"P", "a", "t", "c", "h", " ", "1", "0", "1", " ", ":">>),
      T(<<"P", "a", "t", "c", "h", " ", "d", "e", "s", "c", "r", "i", "p",
        "t", "i", "o", "n", " ", ":", " ", "\"", "S", "e", "c", "u", "r",
        "i", "t", "y", " ", "P", "a", "t", "c", "h", "\"">>),
      T(<<" ", " ", "s", "o", "m", "e", " ", "d", "e", "t", "a", "i", "l",
        " ", "l", "i", "n", "e">>),
      <<>>,
      T(<<"P", "a", "t", "c", "h", " ", "2", "0", "2", " ", ":">>),
      T(<<"P", "a", "t", "c", "h", " ", "d", "e", "s", "c", "r", "i", "p",
        "t", "i", "o", "n", " ", ":", " ", "\"", "D", "a", "t", "a", "b",
        "a", "s", "e", " ", "R", "e", "l", "e", "a", "s", "e", " ", "U",
        "p", "d", "a", "t", "e", " ", "1", "9", ".", "2", "1", "\"">>)
    >>)

\* lsinventory output: a record without a description line
FileBNoDesc ==
    Text(<<
      T(<<"I", "n", "t", "e", "r", "i", "m", " ", "p", "a", "t", "c", "h",
        "e", "s", " ", "(", "1", ")", " ", ":">>),
      T(<<"P", "a", "t", "c", "h", " ", "1", "0", "1", " ", ":">>)
    >>)

\* lsinventory output: a record without a description line, then a
\* release update
FileBNoDescRu ==
    Text(<<
      T(<<"I", "n", "t", "e", "r", "i", "m", " ", "p", "a", "t", "c", "h",
        "e", "s", " ", "(", "2", ")", " ", ":">>),
      T(<<"P", "a", "t", "c", "h", " ", "1", "0", "1", " ", ":">>),
      T(<<"P", "a", "t", "c", "h", " ", "2", "0", "2", " ", ":">>),
      T(<<"P", "a", "t", "c", "h", " ", "d", "e", "s", "c", "r", "i", "p",
        "t", "i", "o", "n", " ", ":", " ", "\"", "D", "a", "t", "a", "b",
        "a", "s", "e", " ", "R", "e", "l", "e", "a", "s", "e", " ", "U",
        "p", "d", "a", "t", "e", " ", "1", "9", ".", "2", "1", "\"">>)
    >>)

\* lsinventory output: a header of more digits than int() reads
FileBLongId ==
    Text(<<
      T(<<"I", "n", "t", "e", "r", "i", "m", " ", "p", "a", "t", "c", "h",
        "e", "s", " ", "(", "1", ")", " ", ":">>),
      T(<<"P", "a", "t", "c", "h", " ">>) \o LongDigits \o T(<<" ", ":">>)
    >>)

\* lspatches output with the line ends "\r\n", "\r" and "\n"
FileACr ==
    T(<<"1", ";", "D", "e", "s", "c", " ", "A">>)
    \o <<CarriageReturn, Newline>>
    \o T(<<"2", ";", "D", "e", "s", "c", " ", "B">>) \o <<CarriageReturn>>
    \o T(<<"3", ";", "C">>) \o <<Newline>>

\* an existing file of zero lines
FileEmpty == <<>>

Files ==
    {FileA12, FileARu21, FileARu22, FileANone, FileABad, FileBFull,
     FileBNoDesc, FileBNoDescRu, FileBLongId, FileACr, FileEmpty}

\* a directory without OPatch/opatch
Directory == [kind |-> "no_opatch", text |-> <<>>]

\* what a file path may hold: a file, nothing, or a directory
FileEntries ==
    {[kind |-> "file", text |-> t] : t \in Files} \cup {Missing, Directory}

\* what opatch may write to its standard output
Stdouts ==
    {<<>>, FileA12, FileARu21, FileABad, FileBFull, FileBNoDesc, FileACr}

\* what an ORACLE_HOME path may hold: nothing, a file, a directory without
\* OPatch/opatch, one whose OPatch/opatch is no executable file, one whose
\* opatch cannot be started, one whose opatch ends with a status other than
\* 0, and one whose opatch ends with status 0 and the given output
HomeEntries ==
    {[kind |-> k, text |-> <<>>] :
        k \in {"missing", "no_opatch", "not_executable", "not_runnable",
               "fails"}}
    \cup {[kind |-> "file", text |-> FileA12]}
    \cup {[kind |-> "runs", text |-> t] : t \in Stdouts}

\* what the path of a source may hold
Entries(s) == IF s.source = "file" THEN FileEntries ELSE HomeEntries

\* the OPatchArg main builds for a source at path: a file, or an
\* ORACLE_HOME with args.lspatches and the output file asked for, if any,
\* out of outputs
SourcesAt(path, outputs, is_lspatches) ==
    {OPatchArg("file", path, FALSE, Some(<<>>)),
     OPatchArg("oracle_home", path, is_lspatches, None)}
    \cup {OPatchArg("oracle_home", path, is_lspatches, Some(o)) :
              o \in outputs}

\* main up to its call of prepare_patches(first, second,
\* args.release_update): --lspatches needs an ORACLE_HOME source, and a
\* file alone is read only with --release_update. The output file of a
\* source may be the other source's path, and the second source's may be
\* the first's output file
InitPrepare ==
    /\ oratab = FALSE
    /\ \E is_lspatches \in BOOLEAN :
           /\ first \in SourcesAt(Path1, {Output1, Path2}, is_lspatches)
           /\ second \in {None} \cup
                  {Some(s) : s \in SourcesAt(Path2, {Output2, Path1, Output1},
                                             is_lspatches)}
           /\ is_lspatches =>
                  \/ first.source = "oracle_home"
                  \/ second # None /\ second[1].source = "oracle_home"
    /\ ru \in BOOLEAN
    /\ (second = None /\ first.source = "file") => ru
    /\ short \in BOOLEAN
    /\ pc = Call(first)
    /\ \E e1 \in Entries(first) :
       \E e2 \in IF second = None THEN {Missing} ELSE Entries(second[1]) :
           fs = (Path1 :> e1) @@ (Path2 :> e2)
                @@ (Output1 :> Missing) @@ (Output2 :> Missing)

HomeA == T(<<"/", "a">>)

HomeB == T(<<"/", "b">>)

OratabLines ==
    { T(<<"x", ":", "/", "a", ":", "N">>),
      T(<<"y", ":", "/", "a", ":", "Y">>),
      T(<<" ", "z", ":", "/", "b">>),
      T(<<"#", "w", ":", "/", "b">>),
      T(<<"b", "a", "d">>),
      T(<<"#", "c">>) \o <<CarriageReturn>> \o T(<<"v", ":", "/", "b">>),
      <<>> }

\* what the ORACLE_HOME of an /etc/oratab line may hold
OratabEntries ==
    {[kind |-> k, text |-> <<>>] : k \in {"missing", "fails"}}
    \cup {[kind |-> "runs", text |-> t] :
             t \in {<<>>, FileA12, FileARu21, FileABad}}

\* what /etc/oratab may hold
OratabFiles ==
    {[kind |-> "file", text |-> Text(ls)] :
        ls \in SeqsUpTo(OratabLines, MaxOratab)}
    \cup {Missing, Directory}

\* main up to its call of check_oratab_release_update: --oratab with
\* --release_update
InitOratab ==
    /\ oratab = TRUE
    /\ pc = "check_oratab_release_update"
    /\ first = OPatchArg("file", Path1, FALSE, Some(<<>>))
    /\ second = None
    /\ ru = TRUE
    /\ short = FALSE
    /\ \E e \in OratabFiles :
       \E a \in OratabEntries :
       \E b \in OratabEntries :
           fs = (EtcOratab :> e) @@ (HomeA :> a) @@ (HomeB :> b)

Init ==
    /\ lines = <<>>
    /\ InitPrepare \/ InitOratab
    /\ Blank

Next ==
    \/ ReadPatches
    \/ RunOpatch
    \/ ReadLspatchesLine
    \/ ReadLspatchesReturn
    \/ ReadLsinventoryLine
    \/ ReadLsinventoryReturn
    \/ ReadOpatchSource
    \/ PrepareFirst
    \/ PrepareSecond
    \/ ComparePatches
    \/ CheckOratabReleaseUpdate
    \/ CheckOratabLine
    \/ CheckOratabPatches
    \/ CheckOratabReturn

Spec == Init /\ [][Next]_vars

----------------------------------------------------------------------------
(* Vocabulary of the properties.                                           *)

HasEvent(tag) == \E i \in DOMAIN out : out[i].tag = tag

\* the entries of out with the given tag, in the order printed
Printed(tag) == SelectSeq(out, LAMBDA e : e.tag = tag)

\* whether p holds a record whose description begins with the marker
HasReleaseUpdate(p) ==
    \E i \in DOMAIN p :
        /\ p[i].description # None
        /\ StartsWith(p[i].description[1], ReleaseUpdateMarker)

\* the description of the first such record, in insertion order
FirstReleaseUpdate(p) ==
    LET i == CHOOSE k \in DOMAIN p :
                 /\ p[k].description # None
                 /\ StartsWith(p[k].description[1], ReleaseUpdateMarker)
                 /\ \A j \in 1..(k - 1) :
                        \/ p[j].description = None
                        \/ ~StartsWith(p[j].description[1], ReleaseUpdateMarker)
    IN  p[i].description[1]

\* compare_patches has run to the end of the process
Compared == pc = "exit" /\ HasEvent("summary")

\* what compare_patches printed between its summary and its first
\* "Patches only in" header: the release-update section of the report
ReleaseUpdateSection ==
    LET a == CHOOSE i \in DOMAIN out : out[i].tag = "summary_second"
        b == CHOOSE i \in DOMAIN out : out[i].tag = "only_first_header"
    IN  SubSeq(out, a + 1, b - 1)

\* no fatal condition was reported and nothing was raised
NoFatalCondition ==
    /\ raised = ""
    /\ ~HasEvent("error_no_lines")
    /\ ~HasEvent("error_invalid_patch_id")
    /\ ~HasEvent("error_command_failed")

\* a Format-A line the claim C6 calls malformed
Malformed(raw) ==
    LET line == Strip(raw)
    IN  /\ line # <<>>
        /\ Find(line, Semicolon) # -1
        /\ ~IntParses(SplitFirst(line, Semicolon)[1])

IsBlankLine(l) == Strip(l) = <<>>

IsHeaderLine(l) == MatchHeader(l).matched

IsDescLine(l) == MatchDesc(l).matched

\* the position of the last header line consumed so far, 0 if none
LastHeader ==
    LET hs == {k \in 1..idx : IsHeaderLine(lines[k])}
    IN  IF hs = {} THEN 0 ELSE CHOOSE k \in hs : \A j \in hs : j <= k

\* the last header consumed opened a record: its identifier is not 0
RecordOpen ==
    LastHeader > 0 /\ IntValue(MatchHeader(lines[LastHeader]).group) # 0

\* lines[k] for the k of I, in ascending order
LinesAt(I) ==
    LET order == Sorted(I)
    IN  [j \in 1..Len(order) |-> lines[order[j]]]

\* positions, after the last header, of the non-blank lines that are not
\* description lines and lie between the record's first description line
\* and the first blank line after it
UpToFirstBlank ==
    LET ds == {d \in (LastHeader + 1)..idx : IsDescLine(lines[d])}
        d1 == CHOOSE d \in ds : \A e \in ds : d <= e
        bs == {b \in (d1 + 1)..idx : IsBlankLine(lines[b])}
        b1 == IF bs = {} THEN idx + 1 ELSE CHOOSE b \in bs : \A c \in bs : b <= c
    IN  IF ~RecordOpen \/ ds = {} THEN {}
        ELSE {k \in (d1 + 1)..(b1 - 1) : ~IsDescLine(lines[k])}

\* positions, after the last header, of the non-blank lines that are not
\* description lines and follow a description line of the record with no
\* blank line in between
AfterADescription ==
    IF ~RecordOpen THEN {}
    ELSE {k \in (LastHeader + 1)..idx :
            /\ ~IsBlankLine(lines[k])
            /\ ~IsDescLine(lines[k])
            /\ \E d \in (LastHeader + 1)..(k - 1) :
                   /\ IsDescLine(lines[d])
                   /\ \A j \in (d + 1)..(k - 1) : ~IsBlankLine(lines[j])}

----------------------------------------------------------------------------
(* The properties.                                                         *)

\* C1: release-update extraction on a Patch Set a decoder returned that
\* holds no record whose description begins with "Database Release Update"
\* never raises, and print_release_update then prints the not-found line.
C1_ExtractionNeverRaises ==
    /\ (~HasReleaseUpdate(patches1) /\ ~HasReleaseUpdate(patches2))
           => raised # "AttributeError"
    /\ (/\ pc = "exit"
        /\ ~oratab
        /\ ru \/ second = None
        /\ Truthy(patches1)
        /\ ~HasReleaseUpdate(patches1))
           => HasEvent("ru_not_found")

\* C2: a source of prepare_patches that is read without a fatal error (a
\* decoder was called on its lines and returned) and decodes to zero records
\* does not end the run: with nothing else fatal the exit status is 0, the
\* second source is still read and, unless only the release update was
\* asked for, the comparison is produced.
C2_NoPatchesFoundIsNotFatal ==
    (/\ pc = "exit"
     /\ ~oratab
     /\ returned
     /\ ~Truthy(patches1) \/ ~Truthy(patches2)
     /\ \/ HasEvent("no_patches_found_file")
        \/ HasEvent("no_patches_found_home")
     /\ NoFatalCondition)
        => /\ exit_code = Some(0)
           /\ second # None => which = 2
           /\ (second # None /\ ~ru) => HasEvent("summary")

\* C3: when exactly one of the two Patch Sets holds a release-update record
\* (and the check did not raise), check_release_update reports that
\* record's description and prints no warning, whichever set holds it.
C3_OneSidedReleaseUpdateIsReported ==
    (/\ Compared
     /\ raised = ""
     /\ HasReleaseUpdate(patches1) # HasReleaseUpdate(patches2))
        => /\ ~HasEvent("ru_warning")
           /\ \E i \in DOMAIN out :
                  /\ out[i].tag = "ru_report"
                  /\ out[i].text =
                         IF HasReleaseUpdate(patches1)
                         THEN FirstReleaseUpdate(patches1)
                         ELSE FirstReleaseUpdate(patches2)

\* C4: when neither Patch Set holds a release-update record (and the check
\* did not raise), the release-update section of the report is not empty:
\* it says that none was found.
C4_NoReleaseUpdateIsStated ==
    (/\ Compared
     /\ raised = ""
     /\ ~HasReleaseUpdate(patches1)
     /\ ~HasReleaseUpdate(patches2))
        => ReleaseUpdateSection # <<>>

\* the body of C5, for a run in which compare_patches was called
WarningIffReleaseUpdatesDiffer ==
    LET differ == /\ HasReleaseUpdate(patches1)
                  /\ HasReleaseUpdate(patches2)
                  /\ FirstReleaseUpdate(patches1) # FirstReleaseUpdate(patches2)
    IN  /\ HasEvent("ru_warning") <=> differ
        /\ differ =>
               /\ Printed("ru_warning_first") =
                      <<Ev("ru_warning_first", 0, FirstReleaseUpdate(patches1))>>
               /\ Printed("ru_warning_second") =
                      <<Ev("ru_warning_second", 0, FirstReleaseUpdate(patches2))>>
        /\ ~differ =>
               /\ Printed("ru_warning_first") = <<>>
               /\ Printed("ru_warning_second") = <<>>

\* C5: check_release_update prints the WARNING if and only if both Patch
\* Sets hold a release-update record and the descriptions of the first such
\* record of each differ, and the warning lists exactly those two.
C5_WarningIffReleaseUpdatesDiffer ==
    Compared => WarningIffReleaseUpdatesDiffer

\* C5 restricted to the runs in which check_release_update returns
C5_WhenNothingRaised ==
    (Compared /\ raised = "") => WarningIffReleaseUpdatesDiffer

\* one side of C7: the entries listed under tag are the keys of p that are
\* not keys of q, strictly ascending, each with p's description, and the
\* "No patches only in" line is printed exactly when there is none
OnlyInListed(p, q, tag, none_tag) ==
    LET listed == Printed(tag)
    IN  /\ {listed[i].num : i \in DOMAIN listed} = Keys(p) \ Keys(q)
        /\ \A i, j \in DOMAIN listed : i < j => listed[i].num < listed[j].num
        /\ \A i \in DOMAIN listed :
               listed[i].text = Str(Get(p, listed[i].num).description)
        /\ HasEvent(none_tag) <=> (Keys(p) \ Keys(q) = {})

\* C7: compare_patches lists under each "only in" header exactly that
\* side's difference, in strictly ascending order, each entry with its own
\* side's description, and prints a side's "No patches only in" line if
\* and only if that side's difference is empty.
C7_DifferencesListed ==
    Compared =>
        /\ OnlyInListed(patches1, patches2, "only_first", "no_patches_only_first")
        /\ OnlyInListed(patches2, patches1, "only_second", "no_patches_only_second")

\* C7 restricted to the runs in which check_release_update returns
C7_WhenNothingRaised ==
    (Compared /\ raised = "") =>
        /\ OnlyInListed(patches1, patches2, "only_first", "no_patches_only_first")
        /\ OnlyInListed(patches2, patches1, "only_second", "no_patches_only_second")

\* C6: read_lspatches ends the process with status 1 at the first line
\* that, trimmed, is non-empty, holds a semicolon and has no integer left of
\* its first semicolon: the loop never goes past such a line and no Patch
\* Set is returned.
C6_MalformedLineAborts ==
    \A k \in 1..idx :
        Malformed(lines[k]) =>
            /\ idx = k
            /\ pc = "exit"
            /\ exit_code = Some(1)
            /\ ~returned

\* C6's case: records were decoded, then a malformed line ended the run
C6_AbortedAfterRecords ==
    /\ idx >= 2
    /\ Malformed(lines[idx])
    /\ patches # <<>>
    /\ pc = "exit"
    /\ exit_code = Some(1)

\* C8: the identifier of every header line of the input is a key of the
\* Patch Set read_lsinventory returns.
C8_EveryHeaderIsAKey ==
    returned =>
        \A k \in DOMAIN lines :
            IsHeaderLine(lines[k]) =>
                IntValue(MatchHeader(lines[k]).group) \in Keys(result)

\* C9 as claimed: the open record's extra lines are exactly the non-blank
\* lines between its description line and the first blank line after it,
\* so that nothing is appended once that blank line is met.
C9_ExtraLinesStopAtFirstBlank ==
    extra_lines = LinesAt(UpToFirstBlank)

\* C9 as amended: the open record's extra lines are exactly the non-blank
\* lines, other than description lines, that follow a description line of
\* the record with no blank line in between; after a blank line nothing is
\* appended until a further description line of the record.
C9_ExtraLinesFollowADescription ==
    /\ extra_lines = LinesAt(AfterADescription)
    /\ (returned /\ RecordOpen) =>
           Get(result, IntValue(MatchHeader(lines[LastHeader]).group)).extra_lines
               = Join(LinesAt(AfterADescription), <<>>)

\* C9's case: a blank line ended the capture of a record that holds extra
\* lines, and the non-blank line consumed after it was not appended
C9_LineAfterBlankNotAppended ==
    /\ idx >= 2
    /\ IsBlankLine(lines[idx - 1])
    /\ ~IsBlankLine(lines[idx])
    /\ ~IsHeaderLine(lines[idx])
    /\ ~IsDescLine(lines[idx])
    /\ RecordOpen
    /\ current_desc # None
    /\ extra_lines # <<>>
    /\ ~is_capturing_extra

\* C10: every key of a Patch Set a decoder returns is greater than zero.
C10_KeysArePositive ==
    returned => \A id \in Keys(result) : id > 0

====
